---- MODULE Spec2Model ----
(***************************************************************************)
(* A model of the BinCrc<N> streaming frame codec (src/src/lib.rs).        *)
(*                                                                         *)
(* Wire format:  selector | length | payload | crc16 (BE) | 0x03           *)
(*   selector 2: one length byte;  selector 3: two length bytes (BE).      *)
(*                                                                         *)
(* The decoder state is (buffer, read_idx, write_idx, bytes_left); one     *)
(* eat_byte call is one step.  The encoder (commit_frame, size_hint) is    *)
(* pure.  History variables (fed, sink, rpos, last, enc, hist) record what *)
(* the environment observed and never influence the decoder.  ref is a     *)
(* second decoder fed the same bytes, whose eat_byte never takes the early *)
(* return on bytes_left.                                                   *)
(***************************************************************************)
EXTENDS Integers, Sequences, FiniteSets, TLC

VARIABLES
    N,          \* the capacity type parameter N::to_usize()
    buffer,     \* GenericArray<u8, N>: a function 0..N-1 -> 0..255
    read_idx,
    write_idx,
    bytes_left,
    failed,     \* TRUE once a call has panicked (index out of range, usize underflow)
    input,      \* bytes the environment has still to feed
    fed,        \* number of eat_byte calls made so far
    sink,       \* what the callback f received: <<[payload, pos, call]>>
    rpos,       \* stream offset of the byte at read_idx (history)
    last,       \* what the last eat_byte call did (history)
    enc,        \* the last commit_frame call and its result (history)
    hist,       \* every byte fed so far, in order (history)
    ref,        \* the decoder that scans on every byte, and what its f received
    plan        \* the scenario the environment plays (fixed at Init)

vars == <<N, buffer, read_idx, write_idx, bytes_left, failed, input, fed,
          sink, rpos, last, enc, hist, ref, plan>>

decoder == <<buffer, read_idx, write_idx, bytes_left, failed, fed, sink, rpos,
             last, hist, ref>>

(***************************************************************************)
(* Bounds of the model.                                                    *)
(***************************************************************************)
MinCap == 0         \* smallest capacity N explored
MaxCap == 8         \* largest small capacity N explored
BigCap == 262       \* a capacity that admits the two-byte length form
MaxPayLen == 2      \* longest enumerated small payload
MaxFeed == 4        \* bytes fed in the free-running specification
MaxJunk == 3        \* longest junk prefix

(***************************************************************************)
(* Bytes and CRC-16/XMODEM (polynomial 0x1021, initial value 0, no         *)
(* reflection), computed bit by bit over 16-bit words.                     *)
(***************************************************************************)
RECURSIVE Xor(_, _)
Xor(a, b) ==
    IF a = 0 THEN b
    ELSE IF b = 0 THEN a
    ELSE (((a % 2) + (b % 2)) % 2) + 2 * Xor(a \div 2, b \div 2)

RECURSIVE CrcShift(_, _)
CrcShift(crc, n) ==
    IF n = 0 THEN crc
    ELSE CrcShift(IF crc >= 32768
                  THEN Xor((crc * 2) % 65536, 4129)
                  ELSE (crc * 2) % 65536,
                  n - 1)

CrcUpdate(crc, byte) == CrcShift(Xor(crc, byte * 256), 8)

\* the CRC register after data[lo..hi], starting from crc (a 16-bit word).
\* The range is halved, and the register is inspected on entry, so that a
\* long payload is folded without nesting one step per byte.
RECURSIVE CrcFold(_, _, _, _)
CrcFold(data, lo, hi, crc) ==
    IF crc >= 65536 THEN CrcFold(data, lo, hi, crc % 65536)
    ELSE IF lo > hi THEN crc
    ELSE IF lo = hi THEN CrcUpdate(crc, data[lo])
    ELSE LET mid == (lo + hi) \div 2
         IN CrcFold(data, mid + 1, hi, CrcFold(data, lo, mid, crc))

Crc16Xmodem(data) == CrcFold(data, 1, Len(data), 0)

\* u16::to_be_bytes / u16::from_be_bytes
ToBeBytes(x) == <<(x % 65536) \div 256, x % 256>>
FromBeBytes(hi, lo) == hi * 256 + lo

\* buffer[start .. end) as a sequence
Slice(buf, start, end) == [i \in 1..(end - start) |-> buf[start + i - 1]]

InBuf(cap, i) == i >= 0 /\ i < cap

(***************************************************************************)
(* decode_frame: the frame scanner at read_idx over data_len bytes.        *)
(* The result carries the value the call leaves in self.bytes_left, and,   *)
(* once the length field has been decoded and accepted, the wire length    *)
(* frame_len + b0 + 3 of the candidate (wire = 0 before that).             *)
(* kind "Panic" marks an index outside the buffer.                         *)
(***************************************************************************)
NeedMoreBytes(left, wire) ==
    [kind |-> "NeedMoreBytes", bytes_left |-> left, count |-> 0, start |-> 0,
     end |-> 0, wire |-> wire]

InvalidData ==
    [kind |-> "InvalidData", bytes_left |-> 0, count |-> 0, start |-> 0,
     end |-> 0, wire |-> 0]

Consumed(n, s, e) ==
    [kind |-> "Consumed", bytes_left |-> 0, count |-> n, start |-> s,
     end |-> e, wire |-> n]

Panic ==
    [kind |-> "Panic", bytes_left |-> 0, count |-> 0, start |-> 0,
     end |-> 0, wire |-> 0]

\* mutant: the one-byte form also refusing the length 255
Len8MalformedOr255(len) == len = 0 \/ len = 255

\* `if len == 0` on the one-byte length
Len8Malformed(len) == len = 0

\* mutant: the two-byte form refusing the length 255
Len16MalformedBelow256(len) == len < 256

\* `if len < 255` on the two-byte length
Len16Malformed(len) == len < 255

\* `if frame_len > N::to_usize()`
TooBigForBuffer(cap, frame_len) == frame_len > cap

\* mutant: the CRC comparison always succeeding
CrcAlwaysMatches(crc, received_crc) == TRUE

\* `if crc == received_crc`
CrcMatches(crc, received_crc) == crc = received_crc

decode_frame(cap, buf, rd, data_len) ==
    IF data_len = 0 THEN NeedMoreBytes(1, 0)
    ELSE IF ~InBuf(cap, rd) THEN Panic
    ELSE
    LET b0 == buf[rd]
        is_len_8b == b0 = 2
        is_len_16b == b0 = 3
        is_len_24b == b0 = 4
    IN
    IF ~is_len_8b /\ ~is_len_16b /\ ~is_len_24b THEN InvalidData
    ELSE IF is_len_24b THEN InvalidData
    ELSE IF data_len < b0 THEN NeedMoreBytes(b0 - data_len, 0)
    ELSE IF ~InBuf(cap, rd + 1) \/ (is_len_16b /\ ~InBuf(cap, rd + 2)) THEN Panic
    ELSE
    LET frame_len == IF is_len_8b THEN buf[rd + 1]
                     ELSE FromBeBytes(buf[rd + 1], buf[rd + 2])
        total == frame_len + b0 + 3
    IN
    IF is_len_8b /\ Len8Malformed(frame_len) THEN InvalidData
    ELSE IF is_len_16b /\ Len16Malformed(frame_len) THEN InvalidData
    ELSE IF TooBigForBuffer(cap, frame_len) THEN InvalidData
    ELSE IF data_len < total THEN NeedMoreBytes(total - data_len, total)
    ELSE IF ~InBuf(cap, rd + b0 + frame_len + 2) THEN Panic
    ELSE IF buf[rd + b0 + frame_len + 2] # 3 THEN InvalidData
    ELSE IF ~InBuf(cap, rd + frame_len + b0 + 1) THEN Panic
    ELSE
    LET received_crc == FromBeBytes(buf[rd + frame_len + b0],
                                    buf[rd + frame_len + b0 + 1])
        crc == Crc16Xmodem(Slice(buf, rd + b0, rd + b0 + frame_len))
    IN
    IF CrcMatches(crc, received_crc)
    THEN Consumed(total, rd + b0, rd + b0 + frame_len)
    ELSE InvalidData

(***************************************************************************)
(* The scan loop of eat_byte: `for _ in read_idx..read_idx + bytes_pending`*)
(* with decode_frame called on lookahead_len.  acc collects, in order, the *)
(* payloads handed to f (with the offset of their frame from the read_idx  *)
(* the call started with) and the outcome of every decode_frame call.      *)
(***************************************************************************)
\* mutant: a rejection that skips two bytes
InvalidAdvanceTwo == 1 + 1

\* `self.read_idx += 1` on InvalidData
InvalidAdvance == 1

\* what the loop leaves behind; returned = TRUE when it left eat_byte by
\* `return` (NeedMoreBytes) instead of running out of iterations.  steps has
\* one entry per decode_frame call: its outcome, the read_idx and the
\* lookahead_len it was called with, the count it consumed and the wire
\* length it decoded.
ScanResult(rd, bl, acc, results, steps, panic, returned) ==
    [read_idx |-> rd, bytes_left |-> bl, out |-> acc.out, results |-> results,
     steps |-> steps, panic |-> panic, returned |-> returned]

ScanStep(r, rd, lookahead_len) ==
    [kind |-> r.kind, rd |-> rd, len |-> lookahead_len, count |-> r.count,
     wire |-> r.wire]

\* mutant: the payloads of one call handed over last-found first
DeliverFirst(out, item) == <<item>> \o out

\* `f(&self.buffer[range])`: the payload is handed to the callback
Deliver(out, item) == Append(out, item)

\* mutant: one more iteration than there are pending bytes
ScanIterationsPlusOne(bytes_pending) == bytes_pending + 1

\* the number of iterations of `for _ in read_idx..read_idx + bytes_pending`
ScanIterations(bytes_pending) == bytes_pending

RECURSIVE ScanLoop(_, _, _, _, _, _, _)

\* the `match result` of one iteration, result being r
ScanMatch(r, cap, buf, rd, lookahead_len, iters, bl, acc) ==
    LET results == Append(acc.results, r.kind)
        steps == Append(acc.steps, ScanStep(r, rd, lookahead_len))
    IN
    CASE r.kind = "Panic" ->
            ScanResult(rd, bl, acc, results, steps, TRUE, TRUE)
      [] r.kind = "NeedMoreBytes" ->
            ScanResult(rd, r.bytes_left, acc, results, steps, FALSE, TRUE)
      [] r.kind = "InvalidData" ->
            IF lookahead_len - 1 < 0
            THEN ScanResult(rd, r.bytes_left, acc, results, steps, TRUE, TRUE)
            ELSE ScanLoop(cap, buf, rd + InvalidAdvance, lookahead_len - 1,
                          iters - 1, r.bytes_left,
                          [acc EXCEPT !.results = results, !.steps = steps])
      [] r.kind = "Consumed" ->
            IF r.end > cap \/ r.start > r.end \/ lookahead_len - r.count < 0
            THEN ScanResult(rd, r.bytes_left, acc, results, steps, TRUE, TRUE)
            ELSE ScanLoop(cap, buf, rd + r.count, lookahead_len - r.count,
                          iters - 1, r.bytes_left,
                          [acc EXCEPT
                             !.out = Deliver(acc.out,
                                             [payload |-> Slice(buf, r.start, r.end),
                                              off |-> rd - acc.rd0]),
                             !.results = results, !.steps = steps])

ScanLoop(cap, buf, rd, lookahead_len, iters, bl, acc) ==
    IF iters = 0
    THEN ScanResult(rd, bl, acc, acc.results, acc.steps, FALSE, FALSE)
    ELSE ScanMatch(decode_frame(cap, buf, rd, lookahead_len),
                   cap, buf, rd, lookahead_len, iters, bl, acc)

(***************************************************************************)
(* eat_byte.  The result is the decoder after the call, the payloads the   *)
(* call handed to f, and the path it took.  panic = TRUE when the call     *)
(* indexes outside the buffer or subtracts below zero.                     *)
(***************************************************************************)
EatResult(buf, rd, wr, bl, path, scan, panic, moved) ==
    [buffer |-> buf, read_idx |-> rd, write_idx |-> wr, bytes_left |-> bl,
     out |-> scan.out, path |-> path, results |-> scan.results,
     steps |-> scan.steps, panic |-> panic, moved |-> moved]

\* a call that never reached the scan loop
NoScan == [out |-> <<>>, results |-> <<>>, steps |-> <<>>]

\* `if bytes_pending >= N::to_usize()`
Saturated(cap, bytes_pending) == bytes_pending >= cap

\* mutant: the reset stores the byte but does not count it
ResetWriteIdxZero == 1 - 1

\* `self.write_idx = 1` in the overflow branch
ResetWriteIdx == 1

\* mutant: compaction only once the write cursor is past the capacity
NeedsCompactionLate(cap, wr) == wr > cap

\* `if self.write_idx >= N::to_usize()`
NeedsCompaction(cap, wr) == wr >= cap

\* mutant: the cursors are rewound but the pending bytes are not moved
CompactNoCopy(buf, rd, bytes_pending) == buf

\* mutant: the copy starts one byte after read_idx
CompactOffByOne(buf, rd, bytes_pending) ==
    [i \in DOMAIN buf |->
        IF i < bytes_pending /\ rd + i + 1 \in DOMAIN buf THEN buf[rd + i + 1]
        ELSE buf[i]]

\* core::ptr::copy(buffer + read_idx, buffer, bytes_pending)
Compact(buf, rd, bytes_pending) ==
    [i \in DOMAIN buf |-> IF i < bytes_pending THEN buf[rd + i] ELSE buf[i]]

\* mutant: the early return also taken when one byte is missing
SkipScanOnLastByte(bl) == bl > 0

\* `if self.bytes_left > 1`
SkipScan(bl) == bl > 1

\* `if bytes_pending == 0` after the loop (reached only when the loop ran out
\* of iterations), bytes_pending being the local that was incremented when
\* the byte was stored
ReclaimAfterScan(bytes_pending) == bytes_pending = 0

\* eat_byte; use_hint = FALSE removes the early return of lines 58-61, which
\* gives the decoder that runs the scan loop on every byte
EatByte(use_hint, cap, buf, rd, wr, bl, byte) ==
    IF wr - rd < 0
    THEN EatResult(buf, rd, wr, bl, "panic", NoScan, TRUE, 0)
    ELSE
    LET pending0 == wr - rd IN
    IF Saturated(cap, pending0)
    THEN IF ~InBuf(cap, 0)
         THEN EatResult(buf, rd, wr, bl, "panic", NoScan, TRUE, 0)
         ELSE EatResult([buf EXCEPT ![0] = byte], 0, ResetWriteIdx, 0,
                        "reset", NoScan, FALSE, 0)
    ELSE
    LET compact == NeedsCompaction(cap, wr)
        srcok == rd >= 0 /\ rd + pending0 <= cap
        buf1 == IF compact /\ srcok THEN Compact(buf, rd, pending0) ELSE buf
        rd1 == IF compact THEN 0 ELSE rd
        wr1 == IF compact THEN pending0 ELSE wr
    IN
    IF (compact /\ ~srcok) \/ ~InBuf(cap, wr1)
    THEN EatResult(buf, rd, wr, bl, "panic", NoScan, TRUE, 0)
    ELSE
    LET buf2 == [buf1 EXCEPT ![wr1] = byte]
        wr2 == wr1 + 1
        bytes_pending == pending0 + 1
    IN
    IF use_hint /\ SkipScan(bl)
    THEN EatResult(buf2, rd1, wr2, bl - 1,
                   IF compact THEN "compact-skip" ELSE "skip", NoScan, FALSE, 0)
    ELSE
    LET s == ScanLoop(cap, buf2, rd1, bytes_pending, ScanIterations(bytes_pending),
                      bl, [out |-> <<>>, results |-> <<>>, steps |-> <<>>,
                           rd0 |-> rd1])
        reclaim == ~s.returned /\ ReclaimAfterScan(bytes_pending)
    IN
    EatResult(buf2,
              IF reclaim THEN 0 ELSE s.read_idx,
              IF reclaim THEN 0 ELSE wr2,
              s.bytes_left,
              IF compact THEN "compact-scan" ELSE "scan",
              s, s.panic, s.read_idx - rd1)

\* BinCrc::eat_byte as written
eat_byte(cap, buf, rd, wr, bl, byte) == EatByte(TRUE, cap, buf, rd, wr, bl, byte)

\* eat_byte without its early return on bytes_left
eat_byte_scan_always(cap, buf, rd, wr, bl, byte) ==
    EatByte(FALSE, cap, buf, rd, wr, bl, byte)

(***************************************************************************)
(* The encoder.                                                            *)
(***************************************************************************)
\* size_hint: [ok, size] or the error
size_hint(frame_len) ==
    IF frame_len <= 255 THEN [ok |-> TRUE, size |-> 2 + frame_len + 3, err |-> "none"]
    ELSE IF frame_len >= 256 /\ frame_len <= 512
         THEN [ok |-> TRUE, size |-> 3 + frame_len + 3, err |-> "none"]
    ELSE [ok |-> FALSE, size |-> 0, err |-> "TooBig"]

\* the first branch of commit_frame: header form and bytes required
HeaderChoice(cap, n) ==
    IF n <= 255 THEN [ok |-> TRUE, bytes_required |-> 2 + n + 3, first_byte |-> 2]
    ELSE IF n >= 256 /\ n <= cap
         THEN [ok |-> TRUE, bytes_required |-> 3 + n + 3, first_byte |-> 3]
    ELSE [ok |-> FALSE, bytes_required |-> 0, first_byte |-> 0]

\* `if buf.len() < bytes_required`
DestTooSmall(buf_len, bytes_required) == buf_len < bytes_required

\* commit_frame(frame, buf): buf is the destination as a sequence (1-based
\* here, 0-based in the source); the result is the error or the buffer as
\* written, with the number of bytes the call wrote.
commit_frame(cap, frame, buf) ==
    LET n == Len(frame)
        h == HeaderChoice(cap, n)
    IN
    IF ~h.ok THEN [result |-> "InvalidLength", buf |-> buf, written |-> 0]
    ELSE IF DestTooSmall(Len(buf), h.bytes_required)
    THEN [result |-> "NotEnoughSpace", buf |-> buf, written |-> 0]
    ELSE
    LET lenbe == ToBeBytes(n)
        data_start_idx == h.first_byte
        crc == ToBeBytes(Crc16Xmodem(frame))
        crc_start_idx == data_start_idx + n
        out == [i \in 1..Len(buf) |->
                   LET k == i - 1 IN
                   IF k = 0 THEN h.first_byte
                   ELSE IF n <= 255 /\ k = 1 THEN n % 256
                   ELSE IF n > 255 /\ k = 1 THEN lenbe[1]
                   ELSE IF n > 255 /\ k = 2 THEN lenbe[2]
                   ELSE IF k >= data_start_idx /\ k < crc_start_idx
                        THEN frame[k - data_start_idx + 1]
                   ELSE IF k = crc_start_idx THEN crc[1]
                   ELSE IF k = crc_start_idx + 1 THEN crc[2]
                   ELSE IF k = crc_start_idx + 2 THEN 3
                   ELSE buf[i]]
    IN [result |-> "Ok", buf |-> out, written |-> h.bytes_required]

\* the bytes a successful commit_frame puts on the wire, for building streams
Encode(cap, frame) ==
    LET r == commit_frame(cap, frame, [i \in 1..(Len(frame) + 6) |-> 0])
    IN SubSeq(r.buf, 1, r.written)

(***************************************************************************)
(* Streams the environment plays.                                          *)
(***************************************************************************)
\* payload and junk bytes: the selectors/terminator 2, 3, 4, the byte 0
\* (invalid selector, zero length, zero CRC) and 1 (the shortest length)
Alphabet == {0, 1, 2, 3, 4}

\* payload bytes of enumerated frames: a byte that is no selector, and the
\* two selectors that start a candidate header inside a payload
PayloadBytes == {0, 2, 3}

RECURSIVE SeqsUpTo(_, _)
SeqsUpTo(S, n) ==
    IF n = 0 THEN {<<>>}
    ELSE LET shorter == SeqsUpTo(S, n - 1)
         IN shorter \cup {Append(q, x) : q \in {t \in shorter : Len(t) = n - 1}, x \in S}

Fill(n, b) == [i \in 1..n |-> b]

\* a run of bytes laid out as a wire frame with a correct CRC and terminator,
\* whatever its selector and length field say
RawFrame(header, payload) ==
    header \o payload \o ToBeBytes(Crc16Xmodem(payload)) \o <<3>>

SmallPayloads == SeqsUpTo(PayloadBytes, MaxPayLen) \ {<<>>}

NoPlan ==
    [kind |-> "none", frame |-> <<>>, frame2 |-> <<>>, junk |-> <<>>,
     buf_len |-> 0, stream |-> <<>>, mark |-> 0]

NoEnc == [result |-> "none", written |-> 0, buf |-> <<>>]

NoCall ==
    [path |-> "none", results |-> <<>>, steps |-> <<>>, emitted |-> 0, byte |-> 0]

\* BinCrc::new() for the decoder that scans on every byte
NewRef(cap) ==
    [buffer |-> [i \in 0..(cap - 1) |-> 0], read_idx |-> 0, write_idx |-> 0,
     bytes_left |-> 0, failed |-> FALSE, sink |-> <<>>]

\* BinCrc::new() with capacity cap, the environment about to play pl
InitWith(cap, pl, stream) ==
    /\ N = cap
    /\ buffer = [i \in 0..(cap - 1) |-> 0]
    /\ read_idx = 0
    /\ write_idx = 0
    /\ bytes_left = 0
    /\ failed = FALSE
    /\ input = stream
    /\ fed = 0
    /\ sink = <<>>
    /\ rpos = 0
    /\ last = NoCall
    /\ enc = NoEnc
    /\ hist = <<>>
    /\ ref = NewRef(cap)
    /\ plan = pl

(***************************************************************************)
(* Actions.                                                                *)
(***************************************************************************)
\* the same byte given to the decoder that scans on every byte
FeedRef(byte) ==
    IF ref.failed THEN ref
    ELSE LET r == eat_byte_scan_always(N, ref.buffer, ref.read_idx, ref.write_idx,
                                       ref.bytes_left, byte)
         IN [buffer |-> r.buffer, read_idx |-> r.read_idx,
             write_idx |-> r.write_idx, bytes_left |-> r.bytes_left,
             failed |-> r.panic,
             sink |-> ref.sink \o [i \in 1..Len(r.out) |->
                                      [payload |-> r.out[i].payload,
                                       call |-> fed + 1]]]

\* one call eat_byte(byte, f), f appending to sink
Feed(byte) ==
    /\ ~failed
    /\ LET r == eat_byte(N, buffer, read_idx, write_idx, bytes_left, byte) IN
       /\ failed' = r.panic
       /\ buffer' = r.buffer
       /\ read_idx' = r.read_idx
       /\ write_idx' = r.write_idx
       /\ bytes_left' = r.bytes_left
       /\ sink' = sink \o [i \in 1..Len(r.out) |->
                              [payload |-> r.out[i].payload,
                               pos |-> rpos + r.out[i].off,
                               call |-> fed + 1]]
       /\ rpos' = IF r.path = "reset" THEN fed ELSE rpos + r.moved
       /\ last' = [path |-> r.path, results |-> r.results, steps |-> r.steps,
                   emitted |-> Len(r.out), byte |-> byte]
    /\ fed' = fed + 1
    /\ hist' = Append(hist, byte)
    /\ ref' = FeedRef(byte)

\* the environment feeds the next byte of its stream
EatInput ==
    /\ input # <<>>
    /\ Feed(Head(input))
    /\ input' = Tail(input)
    /\ UNCHANGED <<N, enc, plan>>

\* an arbitrary byte arrives on the link, to be fed next
Arrive ==
    /\ plan.kind = "free"
    /\ input = <<>>
    /\ ~failed
    /\ fed < plan.mark + MaxFeed
    /\ \E b \in Alphabet : input' = <<b>>
    /\ UNCHANGED <<N, enc, plan>>
    /\ UNCHANGED decoder

\* commit_frame(plan.frame, dest) with a destination of plan.buf_len bytes;
\* what it wrote goes on the wire
CommitFrame ==
    /\ plan.kind = "codec"
    /\ enc.result = "none"
    /\ LET r == commit_frame(N, plan.frame, Fill(plan.buf_len, 0)) IN
       /\ enc' = [result |-> r.result, written |-> r.written, buf |-> r.buf]
       /\ input' = SubSeq(r.buf, 1, r.written)
    /\ UNCHANGED <<N, plan>>
    /\ UNCHANGED decoder

(***************************************************************************)
(* Encoder and round trip: one payload is committed into a destination of  *)
(* size_hint - 1, size_hint or size_hint + 1 bytes and the wire bytes are  *)
(* fed to a fresh decoder.                                                 *)
(***************************************************************************)
CodecCaps == (MinCap..MaxCap) \cup {BigCap}

CodecFrames ==
    SeqsUpTo(PayloadBytes, MaxPayLen)
      \cup {Fill(n, 65) : n \in 1..(MaxCap + 1)}
      \cup {Fill(n, 65) : n \in 254..257}

InitCodec ==
    \E cap \in CodecCaps, p \in CodecFrames, slack \in {-1, 0, 1} :
        /\ size_hint(Len(p)).ok
        /\ InitWith(cap,
                    [NoPlan EXCEPT !.kind = "codec", !.frame = p,
                                   !.buf_len = size_hint(Len(p)).size + slack],
                    <<>>)

NextCodec == CommitFrame \/ EatInput

SpecCodec == InitCodec /\ [][NextCodec]_vars

\* every byte commit_frame wrote has been fed to the decoder
AllFed == input = <<>> /\ ~failed

SinkPayloads == [i \in 1..Len(sink) |-> sink[i].payload]

\* C1 (as stated): for every capacity N and payload p with 1 <= len(p) <= N
\* and len(p) <= 512, once every byte commit_frame(p) wrote has been fed to
\* a fresh decoder, the sink has been invoked exactly once, with p.
C1_RoundTrip ==
    (/\ plan.kind = "codec"
     /\ enc.result = "Ok"
     /\ AllFed
     /\ Len(plan.frame) >= 1
     /\ Len(plan.frame) <= N
     /\ Len(plan.frame) <= 512)
        => SinkPayloads = <<plan.frame>>

\* C8 (as stated): whenever size_hint(len) is Ok(s), commit_frame returns
\* NotEnoughSpace for a destination of s - 1 bytes and Ok for one of s bytes.
C8_CapacityRejection ==
    (/\ plan.kind = "codec"
     /\ enc.result # "none"
     /\ size_hint(Len(plan.frame)).ok)
        => LET s == size_hint(Len(plan.frame)).size IN
           /\ plan.buf_len = s - 1 => enc.result = "NotEnoughSpace"
           /\ plan.buf_len = s => enc.result = "Ok"

(***************************************************************************)
(* Free-running decoder.  The stream opens with nothing, a valid frame, a  *)
(* valid frame and all but the last byte of a second one, a junk selector  *)
(* and all but the last byte of a frame, a junk byte and the first half of *)
(* a frame, a frame with a wrong CRC and the selector of the next, or a    *)
(* header that can never be completed followed by enough bytes to fill the *)
(* buffer; arbitrary bytes follow.                                         *)
(***************************************************************************)
FreePrefixes(cap) ==
    {<<>>,
     Encode(cap, <<0>>),
     Encode(cap, <<0>>) \o SubSeq(Encode(cap, <<0>>), 1, 5),
     <<2>> \o SubSeq(Encode(cap, <<0>>), 1, 5),
     <<0>> \o SubSeq(Encode(cap, <<0>>), 1, 3),
     <<2, 1, 0, 0, 1, 3, 2>>}
      \cup {<<2, cap>> \o Fill(cap - 2, 0) : c \in {cap} \cap (2..255)}

InitFree ==
    \E cap \in MinCap..MaxCap :
        \E pre \in FreePrefixes(cap) :
            InitWith(cap, [NoPlan EXCEPT !.kind = "free", !.mark = Len(pre)], pre)

Next == Arrive \/ EatInput

Spec == InitFree /\ [][Next]_vars

\* C9: whenever eat_byte has returned, 0 <= read_idx <= write_idx <= N, so
\* the pending count write_idx - read_idx never exceeds N.
C9_CursorInvariant ==
    ~failed => /\ 0 <= read_idx
               /\ read_idx <= write_idx
               /\ write_idx <= N
               /\ write_idx - read_idx <= N

\* a full buffer whose read cursor has moved past junk, bytes still pending
C9_Witness ==
    /\ ~failed
    /\ fed > N
    /\ write_idx = N
    /\ read_idx > 0
    /\ read_idx < write_idx

AsBuffer(stream) == [i \in 0..(Len(stream) - 1) |-> stream[i + 1]]

\* the run of stream bytes starting at offset i (0-based) passes header,
\* terminator and CRC validation: the scanner, given the whole rest of the
\* stream in a buffer that holds all of it, consumes a frame there
ValidRunAt(stream, i) ==
    decode_frame(Len(stream), AsBuffer(stream), i, Len(stream) - i).kind = "Consumed"

NoValidRunIn(stream, from, to) ==
    \A i \in from..(to - 1) : ~ValidRunAt(stream, i)

Fits(cap, p) == Encode(cap, p) # <<>> /\ Len(Encode(cap, p)) <= cap

Prepared(cap, kind, p1, p2, junk, stream, mark) ==
    InitWith(cap,
             [NoPlan EXCEPT !.kind = kind, !.frame = p1, !.frame2 = p2,
                            !.junk = junk, !.stream = stream, !.mark = mark],
             stream)

(***************************************************************************)
(* Back-to-back frames.                                                    *)
(***************************************************************************)
BigPayloads == {Fill(255, 65), Fill(256, 65)}

InitB2B ==
    \/ \E cap \in MinCap..MaxCap, p1 \in SmallPayloads, p2 \in SmallPayloads :
          /\ Fits(cap, p1)
          /\ Fits(cap, p2)
          /\ Prepared(cap, "b2b", p1, p2, <<>>,
                      Encode(cap, p1) \o Encode(cap, p2), Len(Encode(cap, p1)))
    \/ \E p1 \in BigPayloads, p2 \in BigPayloads :
          /\ Fits(BigCap, p1)
          /\ Fits(BigCap, p2)
          /\ Prepared(BigCap, "b2b", p1, p2, <<>>,
                      Encode(BigCap, p1) \o Encode(BigCap, p2),
                      Len(Encode(BigCap, p1)))

NextStream == EatInput

SpecB2B == InitB2B /\ [][NextStream]_vars

\* C2: two encoded frames that each fit in N bytes, fed one after the other
\* to a fresh decoder: the sink receives p1 once the first frame is in, then
\* p2 once the second is in, and nothing else.
C2_BackToBack ==
    plan.kind = "b2b" =>
        /\ ~failed
        /\ fed < plan.mark => SinkPayloads = <<>>
        /\ (fed >= plan.mark /\ input # <<>>) => SinkPayloads = <<plan.frame>>
        /\ input = <<>> => SinkPayloads = <<plan.frame, plan.frame2>>

\* both frames delivered, the second having wrapped around the buffer end
C2_Witness ==
    /\ plan.kind = "b2b"
    /\ AllFed
    /\ fed > N
    /\ plan.frame # plan.frame2
    /\ SinkPayloads = <<plan.frame, plan.frame2>>
    /\ sink[2].pos = plan.mark

(***************************************************************************)
(* Junk before a valid frame.                                              *)
(***************************************************************************)
JunkPrefixes == SeqsUpTo(Alphabet, MaxJunk) \ {<<>>}

InitJunk ==
    \E cap \in MinCap..MaxCap, p \in SmallPayloads, junk \in JunkPrefixes :
        /\ Fits(cap, p)
        /\ NoValidRunIn(junk \o Encode(cap, p), 0, Len(junk))
        /\ Prepared(cap, "junk", p, <<>>, junk, junk \o Encode(cap, p), Len(junk))

SpecJunk == InitJunk /\ [][NextStream]_vars

\* C3 (as stated): junk in which no position starts a run that passes
\* header, terminator and CRC validation, followed by one valid frame of
\* wire length <= N, fed to a fresh decoder: the sink receives exactly that
\* frame's payload and nothing else.
C3_Resync ==
    (plan.kind = "junk" /\ input = <<>>) =>
        /\ ~failed
        /\ SinkPayloads = <<plan.frame>>

(***************************************************************************)
(* More than N bytes without a valid frame, then a valid frame.  The junk  *)
(* opens with a header announcing N payload bytes, which can never fit, so *)
(* the pending count climbs to N and the next byte triggers the reset.     *)
(***************************************************************************)
OverflowJunk(cap) ==
    {<<2, cap>> \o Fill(cap - 2, 0) \o t : t \in JunkPrefixes}

ShortPayloads == {p \in SmallPayloads : Len(p) = 1}

InitOverflow ==
    \E cap \in 6..MaxCap, p \in ShortPayloads :
        \E junk \in OverflowJunk(cap) :
            /\ Fits(cap, p)
            /\ Len(junk) > cap
            /\ NoValidRunIn(junk \o Encode(cap, p), 0, Len(junk))
            /\ Prepared(cap, "overflow", p, <<>>, junk,
                        junk \o Encode(cap, p), Len(junk))

SpecOverflow == InitOverflow /\ [][NextStream]_vars

\* C4 (as stated): after more than N bytes that hold no valid frame (the
\* overflow reset included), a valid frame of wire length <= N that starts
\* right after them is delivered to the sink once its last byte is fed.
C4_OverflowRecovery ==
    (plan.kind = "overflow" /\ input = <<>>) =>
        /\ ~failed
        /\ \E i \in 1..Len(sink) : sink[i].payload = plan.frame

(***************************************************************************)
(* A frame with one bit flipped in its payload or CRC, then a valid frame. *)
(***************************************************************************)
FlipBit(byte, k) == Xor(byte, 2 ^ k)

\* wire with bit k of the byte at 1-based position i flipped
Corrupt(wire, i, k) == [wire EXCEPT ![i] = FlipBit(wire[i], k)]

\* 1-based positions of the payload and CRC bytes of an encoded frame
PayloadAndCrc(wire) == (wire[1] + 1)..(Len(wire) - 1)

InitFlip ==
    \E cap \in MinCap..MaxCap, a \in SmallPayloads, b \in ShortPayloads :
        /\ Fits(cap, a)
        /\ Fits(cap, b)
        /\ \E i \in PayloadAndCrc(Encode(cap, a)), k \in 0..7 :
              LET bad == Corrupt(Encode(cap, a), i, k) IN
              Prepared(cap, "flip", a, b, bad, bad \o Encode(cap, b), Len(bad))

SpecFlip == InitFlip /\ [][NextStream]_vars

\* C5 (as stated): frame A with one bit flipped in its payload or CRC field,
\* then valid frame B: nothing is emitted for A's byte range, and B's payload
\* has been emitted by the time B's last byte has been fed.
C5_CrcMismatch ==
    (plan.kind = "flip" /\ input = <<>>) =>
        /\ ~failed
        /\ \A i \in 1..Len(sink) : sink[i].pos >= plan.mark
        /\ \E i \in 1..Len(sink) :
              sink[i].pos = plan.mark /\ sink[i].payload = plan.frame2

(***************************************************************************)
(* Length boundary: candidate frames around L = 255 in both header forms,  *)
(* each with a correct CRC and terminator, fed to a fresh decoder.         *)
(***************************************************************************)
BoundaryHeaders == {<<2, 254>>, <<2, 255>>, <<3, 0, 1>>, <<3, 0, 254>>, <<3, 0, 255>>}

\* the payload length a header announces
Announced(header) ==
    IF header[1] = 2 THEN header[2] ELSE FromBeBytes(header[2], header[3])

BoundaryCaps == {MaxCap} \cup ((BigCap - 2)..BigCap)

InitBoundary ==
    \E cap \in BoundaryCaps, header \in BoundaryHeaders, b \in {0, 65} :
        Prepared(cap, "boundary", Fill(Announced(header), b), <<>>, header,
                 RawFrame(header, Fill(Announced(header), b)), Len(header))

SpecBoundary == InitBoundary /\ [][NextStream]_vars

\* the outcome of the first decode_frame call of the last eat_byte call
FirstResult == IF last.results = <<>> THEN "none" ELSE last.results[1]

\* the call that stored the last header byte has scanned the candidate
HeaderJustIn == plan.kind = "boundary" /\ fed = plan.mark

\* C6 (as stated): a candidate with selector 0x02 and length byte 255 is
\* rejected as InvalidData and no payload is delivered for it, even with a
\* correct terminator and CRC.
C6_OneByteForm255Rejected ==
    (plan.kind = "boundary" /\ plan.junk = <<2, 255>>) =>
        /\ HeaderJustIn => FirstResult = "InvalidData"
        /\ sink = <<>>

\* C6 (amended): a candidate with selector 0x02 and length byte 255, correct
\* CRC and terminator, whose 260 bytes fit the buffer, is not rejected when
\* its header arrives and is consumed, its 255-byte payload delivered, when
\* its last byte arrives.
C6_OneByteForm255Accepted ==
    (plan.kind = "boundary" /\ plan.junk = <<2, 255>> /\ Len(plan.stream) <= N) =>
        /\ ~failed
        /\ HeaderJustIn => last.results = <<"NeedMoreBytes">>
        /\ input = <<>> => /\ FirstResult = "Consumed"
                           /\ SinkPayloads = <<plan.frame>>

C6_Witness ==
    /\ plan.kind = "boundary"
    /\ plan.junk = <<2, 255>>
    /\ input = <<>>
    /\ FirstResult = "Consumed"
    /\ Len(sink) = 1
    /\ Len(sink[1].payload) = 255

\* C7: a candidate with selector 0x03 whose 16-bit length is below 255 is
\* rejected as InvalidData when its header is in and nothing is delivered
\* for it; one whose length is exactly 255, with correct CRC and terminator
\* and fitting the buffer, is consumed and its 255-byte payload delivered.
C7_TwoByteFormBoundary ==
    (plan.kind = "boundary" /\ plan.junk[1] = 3) =>
        /\ ~failed
        /\ Announced(plan.junk) < 255 =>
              /\ HeaderJustIn => FirstResult = "InvalidData"
              /\ sink = <<>>
        /\ (Announced(plan.junk) = 255 /\ Len(plan.stream) <= N) =>
              /\ HeaderJustIn => last.results = <<"NeedMoreBytes">>
              /\ input = <<>> => /\ FirstResult = "Consumed"
                                 /\ SinkPayloads = <<plan.frame>>

C7_Witness ==
    /\ plan.kind = "boundary"
    /\ plan.junk = <<3, 0, 255>>
    /\ input = <<>>
    /\ FirstResult = "Consumed"
    /\ Len(sink) = 1
    /\ Len(sink[1].payload) = 255

(***************************************************************************)
(* What a single eat_byte call does, read off the record of the last call. *)
(***************************************************************************)
ScanPaths == {"scan", "compact-scan"}

SkipPaths == {"skip", "compact-skip"}

\* C11 (as stated): whenever eat_byte returns after a scan that left no
\* pending bytes (read_idx = write_idx), both cursors are 0.
C11_CursorReclaim ==
    (~failed /\ last.path \in ScanPaths /\ read_idx = write_idx) =>
        (read_idx = 0 /\ write_idx = 0)

\* what f received, without the stream positions: payload and call number
SinkCalls ==
    [i \in 1..Len(sink) |-> [payload |-> sink[i].payload, call |-> sink[i].call]]

\* C12: the decoder with the early return on bytes_left > 1 has delivered
\* the same payloads, in the same order and during the same eat_byte calls,
\* as the decoder that scans on every byte, and fails when it does; and
\* whenever eat_byte has skipped the scan, decode_frame at read_idx over the
\* pending bytes returns NeedMoreBytes, with the shortfall bytes_left holds.
C12_SkipHintPureOptimization ==
    /\ SinkCalls = ref.sink
    /\ failed = ref.failed
    /\ (~failed /\ last.path \in SkipPaths) =>
          LET r == decode_frame(N, buffer, read_idx, write_idx - read_idx) IN
          /\ r.kind = "NeedMoreBytes"
          /\ r.bytes_left = bytes_left

\* a scan was skipped after a frame had been delivered, and a frame was
\* delivered by a call that followed skipped scans
C12_Witness ==
    /\ ~failed
    /\ last.path \in SkipPaths
    /\ Len(sink) >= 1
    /\ sink[1].call >= 6
    /\ bytes_left >= 1

\* the lookahead a decode_frame call uses up: 1 for InvalidData, the count
\* for Consumed, nothing when it asks for more bytes
UsedBy(step) ==
    CASE step.kind = "InvalidData" -> 1
      [] step.kind = "Consumed" -> step.count
      [] OTHER -> 0

\* C13: in every eat_byte call that scans, decode_frame is invoked at least
\* once and at most bytes_pending times (the pending count after the
\* append); the first call sees all pending bytes; every invocation but the
\* last is an InvalidData, which lowers lookahead_len by 1, or a Consumed,
\* which lowers it by the frame's wire length (at least 1); lookahead_len
\* never goes below 0 and ends as the pending count the call returns with.
C13_ScanLoopTermination ==
    (~failed /\ last.path \in ScanPaths) =>
        LET st == last.steps IN
        /\ Len(st) >= 1
        /\ LET pending == write_idx - st[1].rd IN
           /\ Len(st) <= pending
           /\ st[1].len = pending
        /\ \A i \in 1..(Len(st) - 1) :
              /\ st[i].kind \in {"InvalidData", "Consumed"}
              /\ st[i + 1].len = st[i].len - UsedBy(st[i])
              /\ UsedBy(st[i]) >= 1
              /\ st[i].kind = "Consumed" => st[i].count = st[i].wire
        /\ \A i \in 1..Len(st) : st[i].len - UsedBy(st[i]) >= 0
        /\ write_idx - read_idx = st[Len(st)].len - UsedBy(st[Len(st)])

\* one call rejected a candidate, consumed the frame behind it and went on
\* scanning
C13_Witness ==
    /\ ~failed
    /\ last.path \in ScanPaths
    /\ Len(last.steps) >= 3
    /\ last.steps[1].kind = "InvalidData"
    /\ last.steps[2].kind = "Consumed"
    /\ last.steps[3].len = 0

\* the read_idx the loop holds after the i-th decode_frame call of the last
\* eat_byte call
ReadIdxAfter(i) ==
    IF i < Len(last.steps) THEN last.steps[i + 1].rd ELSE read_idx

\* C14: in every eat_byte call that scans, each InvalidData outcome moves
\* read_idx forward by exactly 1 (the next decode_frame call, if any, starts
\* at the following byte) and hands nothing to f: f is invoked once per
\* Consumed outcome and never otherwise.  The scan leaves write_idx where
\* the append put it, and the bytes from the scan's starting read_idx up to
\* write_idx, rejected ones included, are still the bytes that were fed.
C14_ByteAtATimeResync ==
    (~failed /\ last.path \in ScanPaths) =>
        LET st == last.steps IN
        /\ \A i \in 1..Len(st) :
              st[i].kind = "InvalidData" => ReadIdxAfter(i) = st[i].rd + 1
        /\ last.emitted = Cardinality({i \in 1..Len(st) : st[i].kind = "Consumed"})
        /\ write_idx = st[1].rd + st[1].len
        /\ \A k \in 0..(st[1].len - 1) :
              buffer[st[1].rd + k] = hist[Len(hist) - st[1].len + k + 1]

\* a junk byte was rejected and the frame that starts at the very next byte
\* was found and delivered by the same call
C14_Witness ==
    /\ ~failed
    /\ last.path \in ScanPaths
    /\ Len(last.steps) >= 2
    /\ last.steps[1].kind = "InvalidData"
    /\ last.steps[2].rd = last.steps[1].rd + 1
    /\ last.steps[2].kind = "Consumed"
    /\ last.emitted = 1
    /\ sink[Len(sink)].pos = rpos - last.steps[2].count

CompactPaths == {"compact-skip", "compact-scan"}

\* C16: a call eat_byte(byte) entered with write_idx = N and fewer than N
\* bytes pending moves the pending bytes buffer[read_idx..write_idx) to
\* buffer[0..bytes_pending), in order, and stores byte right after them:
\* write_idx becomes bytes_pending + 1.  The call goes on from read_idx = 0
\* with bytes_left as it was: with bytes_left > 1 it returns there, one
\* less byte missing; otherwise its scan starts at 0 over bytes_pending + 1
\* bytes.
C16_CompactionPreservesPending ==
    [][(EatInput /\ write_idx = N /\ write_idx - read_idx < N) =>
          LET pending == write_idx - read_idx IN
          /\ ~failed'
          /\ last'.path \in CompactPaths
          /\ \A i \in 0..(pending - 1) : buffer'[i] = buffer[read_idx + i]
          /\ buffer'[pending] = Head(input)
          /\ write_idx' = pending + 1
          /\ (bytes_left > 1) =>
                /\ last'.path = "compact-skip"
                /\ read_idx' = 0
                /\ bytes_left' = bytes_left - 1
          /\ (bytes_left <= 1) =>
                /\ last'.path = "compact-scan"
                /\ last'.steps[1].rd = 0
                /\ last'.steps[1].len = pending + 1]_vars

\* a compaction has moved two or more pending bytes from behind consumed
\* ones to the head of the buffer; they and the new byte are the last bytes
\* fed, in order
C16_Witness ==
    /\ ~failed
    /\ last.path \in CompactPaths
    /\ read_idx = 0
    /\ write_idx >= 3
    /\ rpos >= 1
    /\ \A k \in 0..(write_idx - 1) :
          buffer[k] = hist[Len(hist) - write_idx + k + 1]
    /\ \E k \in 0..(write_idx - 1) : buffer[k] # 0

(***************************************************************************)
(* Two frames buffered behind a candidate header.  The stream opens with a *)
(* header 02 L whose announced frame ends exactly with the stream: with    *)
(* the second frame's last byte, or with one more byte after it.  The      *)
(* decoder waits for that candidate while both frames come in.             *)
(***************************************************************************)
BurstTails == {<<>>, <<0>>, <<3>>}

\* 02 L followed by `rest`, L chosen so that the candidate's wire length
\* L + 5 is the length of the whole stream
BehindCandidate(rest) == <<2, Len(rest) - 3>> \o rest

InitBurst ==
    \E p1 \in SmallPayloads, p2 \in ShortPayloads, tail \in BurstTails, slack \in {0, 1} :
        LET a == Encode(MaxCap, p1)
            b == Encode(MaxCap, p2)
            stream == BehindCandidate(a \o b \o tail)
        IN /\ ~ValidRunAt(stream, 0)
           /\ Prepared(Len(stream) + slack, "burst", p1, p2, <<stream[1], stream[2]>>,
                       stream, 2 + Len(a))

SpecBurst == InitBurst /\ [][NextStream]_vars

\* C17: there is an execution in which one eat_byte call invokes f twice
\* (C17_Witness); and payloads delivered by one call are delivered in the
\* order of their frames in the stream: with two frames buffered behind a
\* candidate header, nothing is delivered before the byte that completes
\* the candidate, and that byte's call delivers the first frame's payload,
\* then the second's.
C17_SeveralFramesFromOneByte ==
    /\ \A i, j \in 1..Len(sink) :
          (i < j /\ sink[i].call = sink[j].call) => sink[i].pos < sink[j].pos
    /\ plan.kind = "burst" =>
          /\ ~failed
          /\ input # <<>> => sink = <<>>
          /\ input = <<>> =>
                /\ SinkPayloads = <<plan.frame, plan.frame2>>
                /\ sink[1].call = fed
                /\ sink[2].call = fed
                /\ sink[1].pos = 2
                /\ sink[2].pos = plan.mark

\* the call for the last byte rejected the candidate and delivered two
\* different payloads
C17_Witness ==
    /\ plan.kind = "burst"
    /\ AllFed
    /\ last.emitted = 2
    /\ last.steps[1].kind = "InvalidData"
    /\ Len(sink) = 2
    /\ sink[1].payload # sink[2].payload
    /\ sink[1].call = sink[2].call

(***************************************************************************)
(* The encoder against the decoder's length rules.                         *)
(***************************************************************************)
\* the header of wire bytes passes the length checks of decode_frame
HeaderWellFormed(wire) ==
    \/ wire[1] = 2 /\ ~Len8Malformed(wire[2])
    \/ wire[1] = 3 /\ ~Len16Malformed(FromBeBytes(wire[2], wire[3]))

\* C18 (as stated): commit_frame returns InvalidLength and writes nothing
\* for an empty payload (here: even into a destination with room for the
\* five bytes of an empty frame), and every Ok result is a wire frame whose
\* selector and length value pass the decoder's length checks.
C18_EncoderNeverEmitsForbidden ==
    (plan.kind = "codec" /\ enc.result # "none") =>
        /\ (Len(plan.frame) = 0 /\ plan.buf_len >= size_hint(0).size) =>
              (enc.result = "InvalidLength" /\ enc.written = 0)
        /\ enc.result = "Ok" =>
              HeaderWellFormed(SubSeq(enc.buf, 1, enc.written))

(***************************************************************************)
(* Waiting for a candidate.                                                *)
(***************************************************************************)
\* C19 (as stated): whenever decode_frame returns NeedMoreBytes after
\* decoding the length field, the candidate's wire length (header + L + CRC
\* + terminator) is at most N.
C19_NeverWaitForUnfittable ==
    (~failed /\ last.path \in ScanPaths) =>
        \A i \in 1..Len(last.steps) :
            (last.steps[i].kind = "NeedMoreBytes" /\ last.steps[i].wire > 0)
                => last.steps[i].wire <= N

(***************************************************************************)
(* Soundness of what the sink receives, against the wire format itself.    *)
(***************************************************************************)
\* the n bytes fed from stream position pos (0-based) on
StreamRun(pos, n) == SubSeq(hist, pos + 1, pos + n)

\* run is a wire frame carrying payload p: selector 2 and a length byte
\* 1..255, or selector 3 and a big-endian length of at least 255; then p,
\* CRC-16/XMODEM of p big-endian, and the terminator 3
IsWireFrameOf(run, p) ==
    \/ Len(p) \in 1..255 /\ run = RawFrame(<<2, Len(p)>>, p)
    \/ Len(p) \in 255..65535 /\ run = RawFrame(<<3>> \o ToBeBytes(Len(p)), p)

\* wire length of the frame delivered as sink[k]: selector, length field,
\* payload, CRC and terminator; the selector is the byte fed at sink[k].pos
WireLen(k) == hist[sink[k].pos + 1] + Len(sink[k].payload) + 3

\* streams of the specifications above: free-running (junk included),
\* corrupted frame then frame, length boundary candidates, frames behind a
\* candidate
InitStreams ==
    \/ InitFree
    \/ InitFlip
    \/ InitBoundary
    \/ InitBurst

SpecStreams == InitStreams /\ [][Next]_vars

\* C20: every payload f has received is the payload of a contiguous run of
\* fed bytes that is a valid wire frame and had been fed in full when f was
\* invoked, and the runs of successive deliveries do not overlap and lie at
\* increasing stream positions.
C20_EmittedFramesSound ==
    ~failed =>
        /\ \A k \in 1..Len(sink) :
              /\ sink[k].pos >= 0
              /\ sink[k].pos + WireLen(k) <= Len(hist)
              /\ sink[k].call >= sink[k].pos + WireLen(k)
              /\ IsWireFrameOf(StreamRun(sink[k].pos, WireLen(k)), sink[k].payload)
        /\ \A k \in 1..(Len(sink) - 1) :
              sink[k + 1].pos >= sink[k].pos + WireLen(k)

\* after a frame whose CRC field had one bit flipped, and which was not
\* delivered, the frame that followed has been
C20_Witness ==
    /\ plan.kind = "flip"
    /\ AllFed
    /\ Len(sink) = 1
    /\ sink[1].pos = plan.mark
    /\ sink[1].payload = plan.frame2
    /\ sink[1].call = fed

====
